---- MODULE Spec2Model ----
(***************************************************************************)
(* Operation dispatch and pagination of the three agent tools:             *)
(*   notion_workspace   (src/NotionWorkspaceTool.py)                       *)
(*   NotionDatabaseTool (src/outreach_agent/tools/NotionDatabaseTool.py)   *)
(*   ResendEmailTool    (src/outreach_agent/tools/ResendEmailTool.py)      *)
(* One invocation is: resolve the credential, validate the arguments of    *)
(* the selected operation, issue the request(s), reduce the response(s) to *)
(* a summary.  Python's None is the string None below; a str value is a    *)
(* string, or a sequence of one-character strings where the code looks     *)
(* inside it (strip).                                                      *)
(***************************************************************************)
EXTENDS Integers, Sequences, FiniteSets, TLC

VARIABLES
    tool,        \* which callable is invoked
    args,        \* its arguments (the fields of the tool object)
    env,         \* the process environment (credential variables)
    ctx,         \* the context value lead_db_id
    script,      \* what the remote service holds: its pages and final cursor
    inv,         \* number of the current invocation
    pc,          \* position of the invocation
    api_key,     \* local api_key
    target,      \* local target (the identifier requests are built with)
    plan,        \* the request the dispatcher has built
    payload,     \* local payload of the pagination loop
    cursor,      \* local cursor of the pagination loop
    acc,         \* local databases / pages / results of the pagination loop
    iter,        \* number of loop iterations of range(max_pages) consumed
    requests,    \* the requests handed to the transport by this invocation
    responses,   \* what the transport answered to each request, in order
    credReads,   \* how often this invocation resolved the credential
    result,      \* what the invocation gave back: a summary or an error
    page_data,   \* argument of a direct title extraction
    title        \* its result

vars == <<tool, args, env, ctx, script, inv, pc, api_key, target, plan, payload,
          cursor, acc, iter, requests, responses, credReads, result, page_data, title>>

-----------------------------------------------------------------------------
(* Bounds of the model *)

MaxPagesArg == 3        \* max_pages ranges over -1 .. MaxPagesArg
MaxSvcPages == 3        \* the service holds 1 .. MaxSvcPages pages
MaxPageLen == 2         \* records on one page of a listing
MaxRows == 11           \* rows of one query_database response
MaxInvocations == 2     \* invocations in a row
MaxTitleItems == 2      \* entries of a title list
MaxSkipProps == 2       \* properties of a record ahead of its title property

(* Program constants *)

SummaryCap == 10        \* rows[:10]
DefaultMaxPages == 3
WsDefaultPageSize == 25
NdtDefaultPageSize == 10

-----------------------------------------------------------------------------
(* Python values *)

None == "None"

\* truth value of an Optional[str]
Truthy(v) == v # None /\ v # ""

\* a or b
Or(a, b) == IF Truthy(a) THEN a ELSE b

\* Optional[list[str]]
NoList == [list |-> FALSE]
ListOf(s) == [list |-> TRUE, items |-> s]
TruthyList(l) == l.list /\ l.items # <<>>

\* cursors: None, the empty string, or an opaque token of the service
NoCursor == [kind |-> "none"]
EmptyCursor == [kind |-> "empty"]
Token(i, p) == [kind |-> "tok", inv |-> i, page |-> p]
Absent == [kind |-> "absent"]
TruthyCursor(c) == c.kind = "tok"

Min(a, b) == IF a < b THEN a ELSE b

-----------------------------------------------------------------------------
(* str.strip() on a sequence of characters *)

IsSpace(c) == c \in {" ", "\t", "\n"}

RECURSIVE LStrip(_)
LStrip(s) == IF s = <<>> THEN s
             ELSE IF IsSpace(Head(s)) THEN LStrip(Tail(s)) ELSE s

RECURSIVE RStrip(_)
RStrip(s) == IF s = <<>> THEN s
             ELSE IF IsSpace(s[Len(s)]) THEN RStrip(SubSeq(s, 1, Len(s) - 1)) ELSE s

Strip(s) == RStrip(LStrip(s))

Untitled == <<"(untitled)">>

\* item.get("plain_text", "")
PlainTextOf(item) == IF "plain_text" \in DOMAIN item THEN item.plain_text ELSE <<>>

\* the first entry's text taken without .strip()
FirstItemTitleUntrimmed(title_items) ==
    LET t == PlainTextOf(title_items[1])
    IN IF t # <<>> THEN t ELSE Untitled

\* title_items[0].get("plain_text", "").strip() or "(untitled)"
FirstItemTitle(title_items) ==
    LET t == Strip(PlainTextOf(title_items[1]))
    IN IF t # <<>> THEN t ELSE Untitled

\* the loop over props.values() of _extract_title
RECURSIVE ScanProps(_)
ScanProps(props) ==
    IF props = <<>> THEN Untitled
    ELSE LET prop == Head(props)
         IN IF prop.isdict /\ prop.type = "title" /\ prop.title # <<>>
            THEN FirstItemTitle(prop.title)
            ELSE ScanProps(Tail(props))

\* _extract_title(page_data)
ExtractTitle(page) == ScanProps(page.properties)

\* _extract_db_title(db_data)
ExtractDbTitle(db) == IF db.title # <<>> THEN FirstItemTitle(db.title) ELSE Untitled

-----------------------------------------------------------------------------
(* The remote workspace service.  A script fixes the pages of the listing the
   invocation reads: page i holds script.lens[i] records, every page but
   the last returns a token for the next one, the last returns script.last
   (no next_cursor, or an empty one). *)

PlainTexts == {<<>>, <<" ">>, <<"A">>, <<" ", "B", " ">>}

Item(s) == [plain_text |-> s]

TitleProp(items) == [isdict |-> TRUE, type |-> "title", title |-> items]
OtherProp == [isdict |-> TRUE, type |-> "rich_text", title |-> <<>>]
NonDictProp == [isdict |-> FALSE]

\* the records the service returns: four shapes, by identifier
RecordOf(id) ==
    CASE id % 4 = 0 -> [id |-> id, title |-> <<Item(<<"D">>)>>,
                        properties |-> <<TitleProp(<<Item(<<"A">>)>>)>>]
      [] id % 4 = 1 -> [id |-> id, title |-> <<>>,
                        properties |-> <<OtherProp, TitleProp(<<Item(<<" ", "B", " ">>)>>)>>]
      [] id % 4 = 2 -> [id |-> id, title |-> <<Item(<<" ">>)>>,
                        properties |-> <<TitleProp(<<>>)>>]
      [] OTHER      -> [id |-> id, title |-> <<Item(<<"E">>), Item(<<"F">>)>>,
                        properties |-> <<>>]

NumPages(s) == Len(s.lens)

PageRecords(s, i) ==
    IF i \in 1..NumPages(s)
    THEN [j \in 1..s.lens[i] |-> RecordOf(100 * i + j)]
    ELSE <<>>

\* the page a request reads: the first one without start_cursor
PageIndex(c) == IF c.kind = "tok" THEN c.page ELSE 1

\* res.json() of a listing / query request carrying start_cursor c
ServiceResponse(s, i, c) ==
    LET p == PageIndex(c)
    IN [results |-> PageRecords(s, p),
        next_cursor |-> IF p < NumPages(s) THEN Token(i, p + 1) ELSE s.last]

\* listings: 1 .. MaxSvcPages pages, page p of shape k holding (k + p) % (MaxPageLen + 1) records
ListScripts ==
    { [lens |-> [p \in 1..n |-> (k + p) % (MaxPageLen + 1)], last |-> l] :
        n \in 1..MaxSvcPages, k \in 0..MaxPageLen, l \in {NoCursor, EmptyCursor} }

\* query responses: 0 .. MaxRows rows, with or without a continuation cursor
QueryScripts ==
    { [lens |-> IF more THEN <<n, 1>> ELSE <<n>>, last |-> NoCursor] :
        n \in 0..MaxRows, more \in BOOLEAN }

SmallScripts ==
    { [lens |-> <<1>>, last |-> NoCursor], [lens |-> <<2, 1>>, last |-> EmptyCursor] }

-----------------------------------------------------------------------------
(* json.loads on the payload strings the model uses *)

JsonLoads(raw) ==
    CASE raw = "{}"        -> [ok |-> TRUE, type |-> "dict", len |-> 0]
      [] raw = "{\"a\":1}" -> [ok |-> TRUE, type |-> "dict", len |-> 1]
      [] raw = "[]"        -> [ok |-> TRUE, type |-> "list", len |-> 0]
      [] raw = "[{},{}]"   -> [ok |-> TRUE, type |-> "list", len |-> 2]
      [] raw = "3"         -> [ok |-> TRUE, type |-> "int", len |-> 0]
      [] OTHER             -> [ok |-> FALSE]

\* datetime.fromisoformat(v.replace("Z", "+00:00")) of the scheduled_at validator
IsIsoDatetime(v) == v \in {"2025-01-01T00:00:00Z", "2025-01-01T00:00:00+00:00"}

\* _validate_iso_datetime: whether the tool object can be constructed
ValidateIsoDatetime(v) == v = None \/ IsIsoDatetime(v)

-----------------------------------------------------------------------------
(* Operations *)

WsOps == {"query_database", "fetch_page", "update_page", "append_block",
          "list_databases", "list_database_pages", "create_page"}
NdtOps == {"list_databases", "list_database_pages", "query_database",
           "fetch_page", "create_page", "update_page"}
EmailOps == {"send_email", "send_batch", "get_email", "update_email",
             "cancel_email", "list_emails", "list_attachments", "get_attachment"}

Tools == {"notion_workspace", "NotionDatabaseTool", "ResendEmailTool"}
NotionTools == {"notion_workspace", "NotionDatabaseTool"}

OpsOf(t) == CASE t = "notion_workspace" -> WsOps
              [] t = "NotionDatabaseTool" -> NdtOps
              [] OTHER -> EmailOps

ListOps == {"list_databases", "list_database_pages"}

Error(kind) == [kind |-> "error", err |-> kind]
NoResult == [kind |-> "none"]

Paragraph(text) == [object |-> "block", type |-> "paragraph", content |-> text]

-----------------------------------------------------------------------------
(* What the dispatcher decides for an operation, once the credential is there:
   an error raised before any request, the pagination loop, or one request. *)

Loop(path, id, pl, kind) ==
    [step |-> "loop", path |-> path, id |-> id, payload |-> pl, summary |-> kind]
Send(method, path, id, body, kind) ==
    [step |-> "send", summary |-> kind,
     req |-> [method |-> method, path |-> path, id |-> id, body |-> body]]
Raise(kind) == [step |-> "error", err |-> kind]

SearchPayload(a) == [page_size |-> a.page_size, filter |-> "database", start_cursor |-> Absent]
QueryPayload(a) == [page_size |-> a.page_size, filter |-> None, start_cursor |-> Absent]

\* notion_workspace, lines 50-181
WsPlan(a) ==
    LET t == a.target_id
        op == a.operation
    IN CASE op = "list_databases" ->
              Loop("/v1/search", None, SearchPayload(a), "ws_databases")
         [] op = "query_database" ->
              Send("POST", "/v1/databases/{id}/query", t, [page_size |-> a.page_size], "query")
         [] op = "list_database_pages" ->
              Loop("/v1/databases/{id}/query", t, QueryPayload(a), "pages")
         [] op = "fetch_page" ->
              Send("GET", "/v1/pages/{id}", t, None, "fetch")
         [] op = "update_page" ->
              IF ~Truthy(a.properties_json) THEN Raise("MissingArgument")
              ELSE IF ~JsonLoads(a.properties_json).ok THEN Raise("InvalidJson")
              ELSE Send("PATCH", "/v1/pages/{id}", t,
                        [properties |-> JsonLoads(a.properties_json)], "update")
         [] op = "append_block" ->
              IF ~Truthy(a.rich_text) THEN Raise("MissingArgument")
              ELSE Send("PATCH", "/v1/blocks/{id}/children", t,
                        [children |-> <<Paragraph(a.rich_text)>>], "append")
         [] op = "create_page" ->
              IF ~Truthy(a.properties_json) THEN Raise("MissingArgument")
              ELSE IF ~JsonLoads(a.properties_json).ok THEN Raise("InvalidJson")
              ELSE Send("POST", "/v1/pages", None,
                        [parent |-> t, properties |-> JsonLoads(a.properties_json),
                         children |-> IF Truthy(a.rich_text)
                                      THEN <<Paragraph(a.rich_text)>> ELSE <<>>],
                        "create")
         [] OTHER -> Raise("UnsupportedOperation")

\* the resolution with the context value taking precedence over the argument
NdtTargetContextFirst(a, c) == Or(c, a.target_id)

\* NotionDatabaseTool.run, line 54
NdtTarget(a, c) == Or(a.target_id, c)

\* NotionDatabaseTool.run, lines 56-146, with target resolved
NdtPlan(a, t) ==
    LET op == a.operation
    IN CASE op = "list_databases" ->
              Loop("/v1/search", None, SearchPayload(a), "ndt_databases")
         [] op # "list_databases" /\ ~Truthy(t) ->
              Raise("MissingArgument")
         [] op = "list_database_pages" ->
              Loop("/v1/databases/{id}/query", t, QueryPayload(a), "pages")
         [] op = "query_database" ->
              Send("POST", "/v1/databases/{id}/query", t, [page_size |-> a.page_size], "query")
         [] op = "fetch_page" ->
              Send("GET", "/v1/pages/{id}", t, None, "fetch")
         [] op = "create_page" ->
              IF ~Truthy(a.properties_json) THEN Raise("MissingArgument")
              ELSE IF ~JsonLoads(a.properties_json).ok THEN Raise("InvalidJson")
              ELSE Send("POST", "/v1/pages", None,
                        [parent |-> t, properties |-> JsonLoads(a.properties_json),
                         children |-> <<>>], "create")
         [] op = "update_page" ->
              IF ~Truthy(a.properties_json) THEN Raise("MissingArgument")
              ELSE IF ~JsonLoads(a.properties_json).ok THEN Raise("InvalidJson")
              ELSE Send("PATCH", "/v1/pages/{id}", t,
                        [properties |-> JsonLoads(a.properties_json)], "update")
         [] OTHER -> Raise("UnsupportedOperation")

\* _parse_batch without its isinstance(payload, list) check
ParseBatchAnyShape(raw) ==
    LET v == JsonLoads(raw)
    IN IF ~v.ok THEN Raise("InvalidJson")
       ELSE [step |-> "send", summary |-> "batch",
             req |-> [method |-> "Batch.send", path |-> "resend", id |-> None, body |-> v]]

\* ResendEmailTool._parse_batch
ParseBatch(raw) ==
    LET v == JsonLoads(raw)
    IN IF ~v.ok THEN Raise("InvalidJson")
       ELSE IF v.type # "list" THEN Raise("InvalidPayloadShape")
       ELSE Send("Batch.send", "resend", None, v, "batch")

\* ResendEmailTool.run, line 65
SendEmailComplete(a) ==
    /\ Truthy(a.from_email)
    /\ TruthyList(a.to)
    /\ Truthy(a.subject)
    /\ (Truthy(a.html) \/ Truthy(a.text))

\* ResendEmailTool.run, lines 64-124
EmailPlan(a) ==
    LET op == a.operation
    IN CASE op = "send_email" ->
              IF ~SendEmailComplete(a) THEN Raise("MissingArgument")
              ELSE Send("Emails.send", "resend", None,
                        [from |-> a.from_email, to |-> a.to, subject |-> a.subject,
                         html |-> a.html,
                         text |-> IF Truthy(a.text) THEN a.text ELSE None,
                         scheduled_at |-> IF Truthy(a.scheduled_at)
                                          THEN a.scheduled_at ELSE None],
                        "sent")
         [] op = "send_batch" ->
              IF ~Truthy(a.batch_payload_json) THEN Raise("MissingArgument")
              ELSE ParseBatch(a.batch_payload_json)
         [] op = "get_email" ->
              IF ~Truthy(a.email_id) THEN Raise("MissingArgument")
              ELSE Send("Emails.get", "resend", a.email_id, None, "status")
         [] op = "update_email" ->
              IF ~(Truthy(a.email_id) /\ Truthy(a.scheduled_at)) THEN Raise("MissingArgument")
              ELSE Send("Emails.update", "resend", a.email_id,
                        [scheduled_at |-> a.scheduled_at], "updated")
         [] op = "cancel_email" ->
              IF ~Truthy(a.email_id) THEN Raise("MissingArgument")
              ELSE Send("Emails.cancel", "resend", a.email_id, None, "canceled")
         [] op = "list_emails" ->
              Send("Emails.list", "resend", None, None, "listed")
         [] op = "list_attachments" ->
              IF ~Truthy(a.email_id) THEN Raise("MissingArgument")
              ELSE Send("Attachments.list", "resend", a.email_id, None, "attachments")
         [] op = "get_attachment" ->
              IF ~(Truthy(a.email_id) /\ Truthy(a.attachment_id)) THEN Raise("MissingArgument")
              ELSE Send("Attachments.get", "resend", a.email_id,
                        [attachment_id |-> a.attachment_id], "attachment")
         [] OTHER -> Raise("UnsupportedOperation")

\* the identifier the requests of the invocation are built with
TargetOf(t, a, c) ==
    CASE t = "notion_workspace" -> a.target_id
      [] t = "NotionDatabaseTool" -> NdtTarget(a, c)
      [] OTHER -> None

PlanOf(t, a, c) ==
    CASE t = "notion_workspace" -> WsPlan(a)
      [] t = "NotionDatabaseTool" -> NdtPlan(a, NdtTarget(a, c))
      [] OTHER -> EmailPlan(a)

-----------------------------------------------------------------------------
(* The environment and the credential *)

Env(k1, k2, k3, k4, r) ==
    [NOTION_API_KEY |-> k1, NOTION_TOKEN |-> k2, NOTION_MCP_OAUTH_TOKEN |-> k3,
     NOTION_MCP_TOKEN |-> k4, RESEND_API_KEY |-> r]

GoodEnv == Env("k1", None, None, None, "rk")

Envs == {Env(None, None, None, None, None), Env("", "", "", "", ""),
         GoodEnv, Env("", None, "k3", "k4", "rk")}

\* every setting of the four Notion variables: unset, empty, or a token of
\* its own
NotionEnvs ==
    { Env(k1, k2, k3, k4, None) :
        k1 \in {None, "", "k1"}, k2 \in {None, "", "k2"},
        k3 \in {None, "", "k3"}, k4 \in {None, "", "k4"} }

\* the or-chain with NOTION_TOKEN consulted before NOTION_API_KEY
ResolveApiKeyTokenFirst(t, e) ==
    IF t \in NotionTools
    THEN Or(Or(Or(e.NOTION_TOKEN, e.NOTION_API_KEY), e.NOTION_MCP_OAUTH_TOKEN),
            e.NOTION_MCP_TOKEN)
    ELSE e.RESEND_API_KEY

\* os.getenv(..) or os.getenv(..) or ..; os.getenv("RESEND_API_KEY")
ResolveApiKey(t, e) ==
    IF t \in NotionTools
    THEN Or(Or(Or(e.NOTION_API_KEY, e.NOTION_TOKEN), e.NOTION_MCP_OAUTH_TOKEN),
            e.NOTION_MCP_TOKEN)
    ELSE e.RESEND_API_KEY

\* the check as "api_key is None": an empty value passes
CredentialMissingNoneOnly(key) == key = None

\* if not api_key: raise
CredentialMissing(key) == ~Truthy(key)

-----------------------------------------------------------------------------
(* The invocations the model runs *)

UnsupportedNotionOps == {"delete_page"}
UnsupportedEmailOps == {"delete_email"}

IsSupported(t, op) == op \in OpsOf(t)

PropsJsonVals == {None, "", "{bad", "{}", "[]"}
BatchJsonVals == {None, "", "{bad", "{}", "[{},{}]"}
MaxPagesVals == -1..MaxPagesArg

UsesProps(op) == op \in {"update_page", "create_page"}
UsesRichText(op) == op \in {"append_block", "create_page"}
UsesPageSize(op) == op \in ListOps \cup {"query_database"}

\* an argument the operation does not read keeps its default
WsRelevant(a) ==
    \/ ~IsSupported("notion_workspace", a.operation)
    \/ /\ UsesProps(a.operation) \/ a.properties_json = None
       /\ UsesRichText(a.operation) \/ a.rich_text = None
       /\ UsesPageSize(a.operation) \/ a.page_size = WsDefaultPageSize
       /\ a.operation \in ListOps \/ a.max_pages = DefaultMaxPages

WsArgs ==
    { a \in [operation : WsOps \cup UnsupportedNotionOps, target_id : {"", "db1"},
             properties_json : PropsJsonVals, rich_text : {None, "", "hi"},
             page_size : {1, WsDefaultPageSize}, max_pages : MaxPagesVals] :
        WsRelevant(a) }

NdtRelevant(a) ==
    \/ ~IsSupported("NotionDatabaseTool", a.operation)
    \/ /\ UsesProps(a.operation) \/ a.properties_json = None
       /\ UsesPageSize(a.operation) \/ a.page_size = NdtDefaultPageSize
       /\ a.operation \in ListOps \/ a.max_pages = DefaultMaxPages

NdtArgs ==
    { a \in [operation : WsOps \cup UnsupportedNotionOps, target_id : {None, "", "db1"},
             properties_json : PropsJsonVals,
             page_size : {1, NdtDefaultPageSize}, max_pages : MaxPagesVals] :
        NdtRelevant(a) }

EmailReads(op) ==
    CASE op = "send_email" -> {"from_email", "to", "subject", "html", "text", "scheduled_at"}
      [] op = "send_batch" -> {"batch_payload_json"}
      [] op = "update_email" -> {"email_id", "scheduled_at"}
      [] op = "get_attachment" -> {"email_id", "attachment_id"}
      [] op = "list_emails" -> {}
      [] op \in {"get_email", "cancel_email", "list_attachments"} -> {"email_id"}
      [] OTHER -> {"from_email", "to", "batch_payload_json", "email_id", "attachment_id"}

EmailRelevant(a) ==
    /\ \A f \in {"from_email", "subject", "html", "text", "scheduled_at",
                 "batch_payload_json", "email_id", "attachment_id"} :
          f \in EmailReads(a.operation) \/ a[f] = None
    /\ "to" \in EmailReads(a.operation) \/ a.to = NoList

\* the tool objects pydantic constructs: scheduled_at has passed its validator
EmailArgs ==
    { a \in [operation : EmailOps \cup UnsupportedEmailOps,
             from_email : {None, "a@x"},
             to : {NoList, ListOf(<<>>), ListOf(<<"b@y">>)},
             subject : {None, "s"}, html : {None, "<p>"}, text : {None, "t"},
             scheduled_at : {None, "not-a-date", "2025-01-01T00:00:00Z"},
             batch_payload_json : BatchJsonVals,
             email_id : {None, "e1"}, attachment_id : {None, "a1"}] :
        EmailRelevant(a) /\ ValidateIsoDatetime(a.scheduled_at) }

Input(t, a, e, c, s) == [tool |-> t, args |-> a, env |-> e, ctx |-> c, script |-> s]

\* every tool, operation and argument shape, against a small service
ValidationInputs ==
    { Input("notion_workspace", a, e, None, s) : a \in WsArgs, e \in Envs, s \in SmallScripts }
    \cup { Input("NotionDatabaseTool", a, e, c, s) :
             a \in NdtArgs, e \in Envs, c \in {None, "ctxdb"}, s \in SmallScripts }
    \cup { Input("ResendEmailTool", a, e, None, [lens |-> <<1>>, last |-> NoCursor]) :
             a \in EmailArgs, e \in Envs }

ListArgs(t) ==
    { a \in (IF t = "notion_workspace" THEN WsArgs ELSE NdtArgs) :
        /\ a.operation \in ListOps
        /\ a.target_id = "db1"
        /\ a.page_size = (IF t = "notion_workspace"
                          THEN WsDefaultPageSize ELSE NdtDefaultPageSize) }

\* the listings, against every service script
PagingInputs ==
    UNION { { Input(t, a, GoodEnv, None, s) : a \in ListArgs(t), s \in ListScripts } :
              t \in NotionTools }

QueryArgs(t) ==
    { a \in (IF t = "notion_workspace" THEN WsArgs ELSE NdtArgs) :
        a.operation = "query_database" /\ a.target_id = "db1" /\ a.page_size = 1 }

QueryInputs ==
    UNION { { Input(t, a, GoodEnv, None, s) : a \in QueryArgs(t), s \in QueryScripts } :
              t \in NotionTools }

FetchArgs(t) ==
    { a \in (IF t = "notion_workspace" THEN WsArgs ELSE NdtArgs) :
        a.operation = "fetch_page" /\ a.target_id = "db1" }

\* one single-request operation, under every Notion environment
CredentialInputs ==
    UNION { { Input(t, a, e, None, [lens |-> <<1>>, last |-> NoCursor]) :
                a \in FetchArgs(t), e \in NotionEnvs } : t \in NotionTools }

Inputs == ValidationInputs \cup PagingInputs \cup QueryInputs \cup CredentialInputs

-----------------------------------------------------------------------------
(* Summaries *)

\* the title a listing shows for a record
ListTitle(kind, rec) ==
    IF kind = "ws_databases" THEN ExtractDbTitle(rec) ELSE ExtractTitle(rec)

\* "Databases:\n..." / "Database {target} pages (...):\n..."
ListSummary(kind, tgt, records) ==
    [kind |-> "ok", summary |-> kind, target |-> tgt,
     lines |-> [i \in 1..Len(records) |->
                  <<i, ListTitle(kind, records[i]), records[i].id>>],
     none_found |-> records = <<>>]

\* the rows without the slice
ShownAll(rows) == rows

\* rows[:10]
Shown(rows) == SubSeq(rows, 1, Min(Len(rows), SummaryCap))

\* "Queried database {target}: {len(rows)} results (showing up to 10):\n{body}"
QuerySummary(tgt, rows) ==
    [kind |-> "ok", summary |-> "query", target |-> tgt, count |-> Len(rows),
     lines |-> [i \in 1..Len(Shown(rows)) |->
                  <<"- ", ExtractTitle(Shown(rows)[i]), " (", Shown(rows)[i].id, ")">>]]

\* the page GET /v1/pages/{id} returns
FetchedPage(s) == RecordOf(100 + s.lens[1])

\* the string a single-request operation returns
SingleSummary(p, tgt, s, i) ==
    CASE p.summary = "query" ->
           QuerySummary(tgt, ServiceResponse(s, i, Absent).results)
      [] p.summary = "fetch" ->
           [kind |-> "ok", summary |-> "fetch", target |-> tgt,
            title |-> ExtractTitle(FetchedPage(s))]
      [] p.summary = "create" ->
           [kind |-> "ok", summary |-> "create", target |-> tgt, id |-> "new"]
      [] OTHER ->
           [kind |-> "ok", summary |-> p.summary, target |-> p.req.id]

-----------------------------------------------------------------------------
(* State *)

NoPlan == [step |-> "none"]
NoPayload == [page_size |-> 0, filter |-> None, start_cursor |-> Absent]

\* the locals of run() as a call begins
FreshLocals ==
    /\ api_key = None
    /\ target = None
    /\ plan = NoPlan
    /\ payload = NoPayload
    /\ cursor = NoCursor
    /\ acc = <<>>
    /\ iter = 0
    /\ requests = <<>>
    /\ responses = <<>>
    /\ credReads = 0
    /\ result = NoResult

Init ==
    /\ \E i \in Inputs :
          /\ tool = i.tool
          /\ args = i.args
          /\ env = i.env
          /\ ctx = i.ctx
          /\ script = i.script
    /\ inv = 1
    /\ pc = "start"
    /\ FreshLocals
    /\ page_data = RecordOf(0)
    /\ title = <<>>

Finish(r) ==
    /\ result' = r
    /\ pc' = "done"

\* api_key = os.getenv(...) ...; if not api_key: raise ValueError
ResolveCredential ==
    /\ pc = "start"
    /\ api_key' = ResolveApiKey(tool, env)
    /\ credReads' = credReads + 1
    /\ IF CredentialMissing(api_key')
       THEN Finish(Error("MissingCredential"))
       ELSE pc' = "dispatch" /\ UNCHANGED result
    /\ UNCHANGED <<tool, args, env, ctx, script, inv, target, plan, payload, cursor,
                   acc, iter, requests, responses, page_data, title>>

\* the if-chain over operation, up to the first request
Dispatch ==
    /\ pc = "dispatch"
    /\ target' = TargetOf(tool, args, ctx)
    /\ plan' = PlanOf(tool, args, ctx)
    /\ CASE plan'.step = "error" ->
              /\ Finish(Error(plan'.err))
              /\ UNCHANGED <<payload, cursor, acc, iter>>
         [] plan'.step = "loop" ->
              /\ payload' = plan'.payload
              /\ acc' = <<>>
              /\ cursor' = NoCursor
              /\ iter' = 0
              /\ pc' = "loop"
              /\ UNCHANGED result
         [] OTHER ->
              /\ pc' = "send"
              /\ UNCHANGED <<payload, cursor, acc, iter, result>>
    /\ UNCHANGED <<tool, args, env, ctx, script, inv, api_key, requests, responses,
                   credReads, page_data, title>>

\* the cursor written into the payload only while it holds none
WithCursorOnce(pl, c) ==
    IF TruthyCursor(c) /\ pl.start_cursor = Absent THEN [pl EXCEPT !.start_cursor = c]
    ELSE pl

\* if cursor: payload["start_cursor"] = cursor / elif ...: payload.pop("start_cursor")
WithCursor(pl, c) ==
    IF TruthyCursor(c) THEN [pl EXCEPT !.start_cursor = c]
    ELSE [pl EXCEPT !.start_cursor = Absent]

\* cursor = data.get("next_cursor")
NextCursor(data) == data.next_cursor

\* the break taken on "cursor is None" only: an empty cursor goes on
LoopBreaksOnNoneOnly(c) == c.kind = "none"

\* if not cursor: break
LoopBreaks(c) == ~TruthyCursor(c)

\* for _ in range(max_pages): whether an iteration is left
IterationLeft(n, maxp) == n < maxp

Request(method, path, id, body) ==
    [method |-> method, path |-> path, id |-> id, body |-> body,
     auth |-> api_key, inv |-> inv]

\* what the transport hands back for one request
Statuses == {"2xx", "4xx", "5xx"}

\* only client errors raise
RaisesOnClientErrorOnly(status) == status = "4xx"

\* res.raise_for_status(): an error status raises
Raises(status) == status \in {"4xx", "5xx"}

Response(status, data) == [status |-> status, next_cursor |-> data.next_cursor]

\* one iteration of the pagination loop
PaginateStep ==
    /\ pc = "loop"
    /\ IterationLeft(iter, args.max_pages)
    /\ payload' = WithCursor(payload, cursor)
    /\ requests' = Append(requests, Request("POST", plan.path, plan.id, payload'))
    /\ \E status \in Statuses :
         LET data == ServiceResponse(script, inv, payload'.start_cursor)
         IN /\ responses' = Append(responses, Response(status, data))
            /\ IF Raises(status)
               THEN /\ Finish(Error("UpstreamRequest"))
                    /\ UNCHANGED <<cursor, acc, iter>>
               ELSE /\ acc' = acc \o data.results
                    /\ cursor' = NextCursor(data)
                    /\ iter' = iter + 1
                    /\ pc' = IF LoopBreaks(cursor') THEN "summarize" ELSE "loop"
                    /\ UNCHANGED result
    /\ UNCHANGED <<tool, args, env, ctx, script, inv, api_key, target, plan,
                   credReads, page_data, title>>

\* after the loop: the numbered lines, or "(none found)"
ListSummarize ==
    /\ \/ pc = "summarize"
       \/ pc = "loop" /\ ~IterationLeft(iter, args.max_pages)
    /\ Finish(ListSummary(plan.summary, plan.id, acc))
    /\ UNCHANGED <<tool, args, env, ctx, script, inv, api_key, target, plan, payload,
                   cursor, acc, iter, requests, responses, credReads, page_data, title>>

\* the request of a single-request operation, and what is made of its response
SendRequest ==
    /\ pc = "send"
    /\ requests' = Append(requests, Request(plan.req.method, plan.req.path,
                                            plan.req.id, plan.req.body))
    /\ \E status \in Statuses :
         /\ responses' = Append(responses,
                                Response(status, ServiceResponse(script, inv, Absent)))
         /\ IF Raises(status)
            THEN Finish(Error("UpstreamRequest"))
            ELSE Finish(SingleSummary(plan, target, script, inv))
    /\ UNCHANGED <<tool, args, env, ctx, script, inv, api_key, target, plan, payload,
                   cursor, acc, iter, credReads, page_data, title>>

\* the next call, a listing with the default max_pages, in the same process
\* against the same service
Reinvoke ==
    /\ pc = "done"
    /\ inv < MaxInvocations
    /\ \E t \in NotionTools : \E a \in ListArgs(t) :
          /\ a.max_pages = DefaultMaxPages
          /\ tool' = t
          /\ args' = a
    /\ inv' = inv + 1
    /\ pc' = "start"
    /\ api_key' = None
    /\ target' = None
    /\ plan' = NoPlan
    /\ payload' = NoPayload
    /\ cursor' = NoCursor
    /\ acc' = <<>>
    /\ iter' = 0
    /\ requests' = <<>>
    /\ responses' = <<>>
    /\ credReads' = 0
    /\ result' = NoResult
    /\ UNCHANGED <<env, ctx, script, page_data, title>>

Next ==
    \/ ResolveCredential
    \/ Dispatch
    \/ PaginateStep
    \/ ListSummarize
    \/ SendRequest
    \/ Reinvoke

Spec == Init /\ [][Next]_vars

-----------------------------------------------------------------------------
(* Title extraction on its own: every shape of record *)

TitleItems == {Item(t) : t \in PlainTexts} \cup {[href |-> "x"]}

RECURSIVE SeqsUpTo(_, _)
SeqsUpTo(S, n) ==
    IF n = 0 THEN {<<>>}
    ELSE LET shorter == SeqsUpTo(S, n - 1)
         IN shorter \cup {Append(q, x) : q \in shorter, x \in S}

SkipProps == {NonDictProp, OtherProp, TitleProp(<<>>)}

TitleRecords ==
    { [id |-> 1, title |-> <<>>, properties |-> skip \o main \o trail] :
        skip \in SeqsUpTo(SkipProps, MaxSkipProps),
        main \in {<<>>} \cup {<<TitleProp(items)>> :
                                items \in SeqsUpTo(TitleItems, MaxTitleItems) \ {<<>>}},
        trail \in {<<>>, <<TitleProp(<<Item(<<"A">>)>>)>>} }

InitTitle ==
    /\ page_data \in TitleRecords
    /\ title = <<>>
    /\ pc = "title"
    /\ tool = "notion_workspace"
    /\ args = CHOOSE a \in QueryArgs("notion_workspace") : TRUE
    /\ env = GoodEnv
    /\ ctx = None
    /\ script = [lens |-> <<1>>, last |-> NoCursor]
    /\ inv = 1
    /\ FreshLocals

\* title = _extract_title(page_data)
ExtractTitleCall ==
    /\ pc = "title"
    /\ title' = ExtractTitle(page_data)
    /\ pc' = "titled"
    /\ UNCHANGED <<tool, args, env, ctx, script, inv, api_key, target, plan, payload,
                   cursor, acc, iter, requests, responses, credReads, result, page_data>>

NextTitle == ExtractTitleCall

SpecTitle == InitTitle /\ [][NextTitle]_vars

-----------------------------------------------------------------------------
(* Vocabulary of the properties *)

Done == pc = "done"
Failed(kind) == result.kind = "error" /\ result.err = kind
Returned == result.kind = "ok"
NoRequestIssued == requests = <<>>

CredentialVars(t) ==
    IF t \in NotionTools
    THEN {"NOTION_API_KEY", "NOTION_TOKEN", "NOTION_MCP_OAUTH_TOKEN", "NOTION_MCP_TOKEN"}
    ELSE {"RESEND_API_KEY"}

\* none of the tool's credential variables is set to a non-empty value
NoCredential == \A v \in CredentialVars(tool) : env[v] = None \/ env[v] = ""

Empty(v) == v = None \/ v = ""

\* the target identifier the caller supplied: the argument, or for
\* NotionDatabaseTool the context value standing in for it
TargetSupplied ==
    CASE tool = "notion_workspace" -> ~Empty(args.target_id)
      [] tool = "NotionDatabaseTool" -> ~Empty(args.target_id) \/ ~Empty(ctx)
      [] OTHER -> TRUE

\* a field the selected operation requires is absent or empty
RequiredFieldMissing ==
    LET op == args.operation
    IN IF tool \in NotionTools
       THEN \/ op # "list_databases" /\ ~TargetSupplied
            \/ op \in {"update_page", "create_page"} /\ Empty(args.properties_json)
            \/ op = "append_block" /\ Empty(args.rich_text)
       ELSE \/ /\ op = "send_email"
               /\ \/ Empty(args.from_email)
                  \/ ~args.to.list
                  \/ args.to.items = <<>>
                  \/ Empty(args.subject)
                  \/ Empty(args.html) /\ Empty(args.text)
            \/ op = "send_batch" /\ Empty(args.batch_payload_json)
            \/ /\ op \in {"get_email", "update_email", "cancel_email",
                          "list_attachments", "get_attachment"}
               /\ Empty(args.email_id)
            \/ op = "update_email" /\ Empty(args.scheduled_at)
            \/ op = "get_attachment" /\ Empty(args.attachment_id)

\* payload strings of the model that json.loads rejects / accepts as a non-list
MalformedJsonTexts == {"{bad"}
NonListJsonTexts == {"{}"}

PropertiesMalformed ==
    /\ tool \in NotionTools
    /\ args.operation \in {"update_page", "create_page"}
    /\ args.properties_json \in MalformedJsonTexts

BatchMalformed ==
    /\ tool = "ResendEmailTool"
    /\ args.operation = "send_batch"
    /\ args.batch_payload_json \in MalformedJsonTexts

BatchNotAList ==
    /\ tool = "ResendEmailTool"
    /\ args.operation = "send_batch"
    /\ args.batch_payload_json \in NonListJsonTexts

\* C1: in every tool and for every operation, when a field the operation
\* requires is absent or empty (and the JSON fields given are well-formed), no
\* request is issued at any point of the invocation, and the invocation (its
\* credential resolved) ends in the missing-argument error.
C1_MissingFieldFailsBeforeAnyRequest ==
    (IsSupported(tool, args.operation) /\ RequiredFieldMissing /\ ~PropertiesMalformed)
        => /\ NoRequestIssued
           /\ (Done /\ ~NoCredential) => Failed("MissingArgument")

\* C2: when none of the tool's credential variables is set to a non-empty
\* value the invocation fails with the missing-credential error and no
\* request is issued; the credential is resolved exactly once per invocation,
\* before the first request.
C2_CredentialResolvedOnceBeforeRequests ==
    /\ credReads <= 1
    /\ pc # "start" => credReads = 1
    /\ ~NoRequestIssued => (credReads = 1 /\ ~Empty(api_key))
    /\ NoCredential => /\ NoRequestIssued
                       /\ pc \in {"start", "done"}
                       /\ Done => Failed("MissingCredential")

C2_Witness ==
    /\ Done
    /\ NoCredential
    /\ env["NOTION_TOKEN"] = ""
    /\ tool = "NotionDatabaseTool"
    /\ args.operation = "query_database"
    /\ args.target_id = "db1"
    /\ credReads = 1
    /\ Failed("MissingCredential")


-----------------------------------------------------------------------------
(* Pagination *)

IsListing == tool \in NotionTools /\ args.operation \in ListOps

\* the first page of the service that returns no continuation cursor
FirstCursorlessPage(s) == NumPages(s)

RECURSIVE ConcatPages(_, _)
ConcatPages(s, n) ==
    IF n <= 0 THEN <<>> ELSE ConcatPages(s, n - 1) \o PageRecords(s, n)

PagesRead == Min(FirstCursorlessPage(script), args.max_pages)

\* C3: for list_databases and list_database_pages, with page k the first to
\* return no continuation cursor and every request succeeding, the loop issues
\* the requests for pages 1..min(k, max_pages), one each and in order, and the
\* accumulated records (and the lines of the summary) are exactly the records
\* of those pages in service order; the loop never issues more requests than
\* that and is never stuck, so it terminates.
C3_PaginationReadsExactlyTheBoundedPrefix ==
    IsListing =>
        /\ DOMAIN requests \subseteq 1..PagesRead
        /\ pc = "loop" => ENABLED (PaginateStep \/ ListSummarize)
        /\ pc = "summarize" => ENABLED ListSummarize
        /\ (Done /\ Returned) =>
              /\ DOMAIN requests = 1..PagesRead
              /\ \A i \in DOMAIN requests :
                    PageIndex(requests[i].body.start_cursor) = i
              /\ acc = ConcatPages(script, PagesRead)
              /\ Len(result.lines) = Len(acc)
              /\ \A i \in DOMAIN acc :
                    result.lines[i][1] = i /\ result.lines[i][3] = acc[i].id

C3_Witness ==
    /\ IsListing
    /\ Done
    /\ Returned
    /\ NumPages(script) = 3
    /\ args.max_pages = 2
    /\ Len(requests) = 2
    /\ Len(acc) = 3

\* a response that is not a success
NonSuccess(r) == r.status # "2xx"

C5_BadJsonFailsBeforeAnyRequest ==
    (PropertiesMalformed \/ BatchMalformed \/ BatchNotAList) =>
        /\ NoRequestIssued
        /\ Done => result.kind = "error"
        /\ (Done /\ ~NoCredential /\ TargetSupplied) =>
              Failed(IF BatchNotAList THEN "InvalidPayloadShape" ELSE "InvalidJson")

C5_Witness ==
    /\ Done
    /\ BatchNotAList
    /\ credReads = 1
    /\ NoRequestIssued
    /\ Failed("InvalidPayloadShape")

\* C6: an invocation whose operation tag is not in the tool's enumeration
\* fails (its credential resolved) with the unsupported-operation error, issues
\* no request and returns no result string, whatever its other arguments.
C6_UnknownTagIsUnsupportedOperation ==
    (~IsSupported(tool, args.operation) /\ ~NoCredential) =>
        /\ NoRequestIssued
        /\ ~Returned
        /\ Done => Failed("UnsupportedOperation")

\* C7: within one listing invocation the first request carries no
\* start_cursor and request i carries the next_cursor of response i-1 of the
\* same invocation; page_size, the filter and the target URL are the same in
\* every iteration; a token issued in one invocation is not sent in another.
C7_CursorChaining ==
    IsListing =>
        \A i \in DOMAIN requests :
            LET r == requests[i]
            IN /\ i = 1 => r.body.start_cursor = Absent
               /\ i > 1 => /\ r.body.start_cursor = responses[i - 1].next_cursor
                           /\ r.body.start_cursor.kind = "tok"
               /\ r.body.start_cursor.kind = "tok" =>
                     /\ r.body.start_cursor.inv = inv
                     /\ r.inv = inv
               /\ r.method = "POST"
               /\ r.body.page_size = args.page_size
               /\ r.body.filter = requests[1].body.filter
               /\ r.path = requests[1].path
               /\ r.id = requests[1].id

C7_Witness ==
    /\ IsListing
    /\ inv = 2
    /\ Done
    /\ Returned
    /\ Len(requests) = 3
    /\ requests[3].body.start_cursor = Token(2, 3)

\* C8: every invocation that passes credential and argument validation issues
\* at least one request before it returns a result string.
C8_EveryResultFollowsARequest ==
    (Done /\ Returned) => ~NoRequestIssued

IsQuery == tool \in NotionTools /\ args.operation = "query_database"

\* C9: query_database issues one request, also when the response carries a
\* continuation cursor; for a response of n rows the summary reports n and
\* lists the first min(n, 10) rows in response order, each as
\* "- <title> (<id>)".
C9_QueryIsOneRequestCappedAtTen ==
    IsQuery =>
        /\ Len(requests) <= 1
        /\ (Done /\ Returned) =>
              LET rows == PageRecords(script, 1)
              IN /\ Len(requests) = 1
                 /\ result.count = Len(rows)
                 /\ Len(result.lines) = Min(Len(rows), 10)
                 /\ \A i \in DOMAIN result.lines :
                       result.lines[i] =
                           <<"- ", ExtractTitle(rows[i]), " (", rows[i].id, ")">>

C9_Witness ==
    /\ IsQuery
    /\ Done
    /\ Returned
    /\ responses[1].next_cursor.kind = "tok"
    /\ result.count = 11
    /\ Len(result.lines) = 10

-----------------------------------------------------------------------------
(* Titles *)

SetMin(S) == CHOOSE x \in S : \A y \in S : x <= y

Trimmed(item) == Strip(PlainTextOf(item))

\* the title-kind properties of a record, by position
TitleKindProps(page) ==
    { i \in DOMAIN page.properties :
        page.properties[i].isdict /\ page.properties[i].type = "title" }

\* the first non-empty plain-text segment of the record's title-kind property
FirstNonEmptySegment(page) ==
    IF TitleKindProps(page) = {} THEN Untitled
    ELSE LET items == page.properties[SetMin(TitleKindProps(page))].title
             full == { j \in DOMAIN items : Trimmed(items[j]) # <<>> }
         IN IF full = {} THEN Untitled ELSE Trimmed(items[SetMin(full)])

\* C10 as stated: for a record with at most one title-kind property, the
\* extracted title is the first non-empty plain-text segment of that property,
\* trimmed, and "(untitled)" exactly when it has no non-empty segment.
C10_TitleIsFirstNonEmptySegment ==
    (pc = "titled" /\ Cardinality(TitleKindProps(page_data)) <= 1)
        => title = FirstNonEmptySegment(page_data)

\* the title-kind properties whose title list has an entry
FilledTitleProps(page) ==
    { i \in TitleKindProps(page) : page.properties[i].title # <<>> }

FirstEntryTitle(page) ==
    IF FilledTitleProps(page) = {} THEN Untitled
    ELSE LET t == Trimmed(page.properties[SetMin(FilledTitleProps(page))].title[1])
         IN IF t = <<>> THEN Untitled ELSE t

\* C10 amended: the extracted title is the trimmed plain text of the first
\* entry of the title list of the record's first title-kind property with a
\* non-empty list, and "(untitled)" exactly when there is no such property or
\* that trimmed text is empty; later entries are never read.
C10_TitleIsFirstEntryTrimmed ==
    pc = "titled" => title = FirstEntryTitle(page_data)

C10_Witness ==
    /\ pc = "titled"
    /\ page_data.properties = <<OtherProp, TitleProp(<<Item(<<" ">>), Item(<<"A">>)>>)>>
    /\ title = Untitled

-----------------------------------------------------------------------------
(* Database titles in list_databases *)

IsListDatabases == tool \in NotionTools /\ args.operation = "list_databases"

\* the title of a database record by its top-level title list alone
TopLevelTitle(db) ==
    IF db.title = <<>> THEN Untitled
    ELSE IF Trimmed(db.title[1]) = <<>> THEN Untitled ELSE Trimmed(db.title[1])

\* C11: in the list_databases summary of both workspace tools, the title
\* shown for each database record is read from the record's top-level title
\* list (the trimmed plain text of its first entry, "(untitled)" when the list
\* is empty or that text is), independently of the record's property map.
C11_DatabaseTitleIsTopLevelTitle ==
    (IsListDatabases /\ Done /\ Returned) =>
        /\ Len(result.lines) = Len(acc)
        /\ \A i \in DOMAIN acc : result.lines[i][2] = TopLevelTitle(acc[i])

-----------------------------------------------------------------------------
(* Target resolution in NotionDatabaseTool *)

\* the identifier a request addresses: the parent of a created page, the id
\* in the path otherwise
UsedId(r) == IF r.path = "/v1/pages" THEN r.body.parent ELSE r.id

\* the target by the rule: the argument when supplied, the context value else
ExpectedTarget == IF ~Empty(args.target_id) THEN args.target_id ELSE ctx

TargetRule ==
    tool = "NotionDatabaseTool" =>
        IF args.operation = "list_databases"
        THEN /\ \A i \in DOMAIN requests :
                   requests[i].path = "/v1/search" /\ requests[i].id = None
             /\ ~Failed("MissingArgument")
             /\ (Done /\ ~NoCredential) =>
                   \/ Returned
                   \/ \E i \in DOMAIN responses : NonSuccess(responses[i])
        ELSE /\ \A i \in DOMAIN requests :
                   UsedId(requests[i]) = ExpectedTarget /\ ~Empty(ExpectedTarget)
             /\ (Failed("MissingArgument")
                   /\ ~(UsesProps(args.operation) /\ Empty(args.properties_json)))
                   => (Empty(args.target_id) /\ Empty(ctx))
             /\ (Done /\ ~NoCredential /\ Empty(args.target_id) /\ Empty(ctx)
                   /\ IsSupported(tool, args.operation))
                   => Failed("MissingArgument")

\* C12: in NotionDatabaseTool every request of a target-taking operation
\* addresses the explicit target_id when one is supplied and lead_db_id only
\* when it is not; the missing-argument error for the target is raised only
\* when both are absent; list_databases is served whatever the two are; and
\* no step writes the context value.
C12_TargetIsArgumentElseContext == []TargetRule /\ [][ctx' = ctx]_vars

\* both supplied: the request carries the argument
C12_Witness ==
    /\ tool = "NotionDatabaseTool" /\ args.operation = "create_page"
    /\ args.target_id = "db1" /\ ctx = "ctxdb"
    /\ Done /\ Returned
    /\ Len(requests) = 1 /\ requests[1].body.parent = "db1"

-----------------------------------------------------------------------------
(* Credential order of the Notion tools *)

CredentialOrder ==
    <<"NOTION_API_KEY", "NOTION_TOKEN", "NOTION_MCP_OAUTH_TOKEN", "NOTION_MCP_TOKEN">>

\* the positions of the variables that are set to a non-empty value
SetVars == { i \in DOMAIN CredentialOrder : ~Empty(env[CredentialOrder[i]]) }

FirstSetValue == env[CredentialOrder[SetMin(SetVars)]]

BearerRule ==
    tool \in NotionTools =>
        /\ \A i \in DOMAIN requests :
               SetVars # {} /\ requests[i].auth = FirstSetValue
        /\ (pc # "start" /\ SetVars # {}) => api_key = FirstSetValue

\* C13: for the workspace tools, the bearer token of every request is the
\* value of the first of NOTION_API_KEY, NOTION_TOKEN, NOTION_MCP_OAUTH_TOKEN,
\* NOTION_MCP_TOKEN that is set and non-empty, a variable set to the empty
\* string being skipped; and no step modifies the environment.
C13_BearerIsFirstSetVariable == []BearerRule /\ [][env' = env]_vars

\* an empty first variable and an unset second are passed over for the third
C13_Witness ==
    /\ tool \in NotionTools /\ Done /\ Returned
    /\ env.NOTION_API_KEY = "" /\ env.NOTION_TOKEN = None
    /\ env.NOTION_MCP_OAUTH_TOKEN = "k3" /\ env.NOTION_MCP_TOKEN = "k4"
    /\ Len(requests) >= 1 /\ requests[1].auth = "k3"

====
